---- MODULE Spec2Model ----
(***************************************************************************)
(* Model of _posts/tester.py: a command-line driver that reads text from   *)
(* standard input or from a list of files, hands it to an external grammar *)
(* checker (language_tool_python) and prints the number of matches and     *)
(* each match.                                                             *)
(*                                                                         *)
(* Text is a sequence of characters.  The environment (content of stdin,   *)
(* content or absence of each file, whether the engine starts, what the    *)
(* engine answers for a text) is fixed for a behaviour; the parts of it    *)
(* the program has not observed yet are chosen when first observed and     *)
(* remembered in stdinData, fs, engine and oracle.  File arguments are     *)
(* ordinary paths; a path either names a readable file or cannot be opened.*)
(***************************************************************************)
EXTENDS Naturals, Sequences, FiniteSets, TLC

\* ---------------------------------------------------------------- bounds
MaxLen == 3
MaxFileLen == 2
MaxArgs == 2
MaxMatches == 2

\* ------------------------------------------------------------ value sets
Whitespace == {" ", "\n"}
Chars == {"a"} \cup Whitespace
Paths == {"f1", "f2"}
Matches == {"m1", "m2"}

SeqsUpTo(S, n) == UNION {[1..m -> S] : m \in 0..n}
Strings == SeqsUpTo(Chars, MaxLen)
FileContents == SeqsUpTo(Chars, MaxFileLen)
ArgLists == SeqsUpTo(Paths, MaxArgs)
MatchLists == SeqsUpTo(Matches, MaxMatches)

UsageMessage == <<"Please provide input via stdin, or provide files as arguments">>

\* --------------------------------------------------------- pure functions
\* str.strip(): drop leading and trailing whitespace.
RECURSIVE lstrip(_)
lstrip(s) ==
  IF s = <<>> THEN <<>>
  ELSE IF Head(s) \in Whitespace THEN lstrip(Tail(s)) ELSE s

RECURSIVE rstrip(_)
rstrip(s) ==
  IF s = <<>> THEN <<>>
  ELSE IF s[Len(s)] \in Whitespace THEN rstrip(SubSeq(s, 1, Len(s) - 1)) ELSE s

strip(s) == rstrip(lstrip(s))

\* sys.stdin.read().strip()
InputStrip_LeadingOnly(s) == lstrip(s)
InputStrip(s) == strip(s)

\* line.strip() in the generator of from_files
LineStrip_TrailingOnly(line) == rstrip(line)
LineStrip(line) == strip(line)

\* Iterating a file yields its lines, each keeping its terminating newline;
\* the last line may have none.
RECURSIVE EndOfLine(_, _)
EndOfLine(s, i) ==
  IF i >= Len(s) \/ s[i] = "\n" THEN i ELSE EndOfLine(s, i + 1)

RECURSIVE SplitLines(_)
SplitLines(s) ==
  IF s = <<>> THEN <<>>
  ELSE LET e == EndOfLine(s, 1)
       IN  <<SubSeq(s, 1, e)>> \o SplitLines(SubSeq(s, e + 1, Len(s)))

StripLines(ls) == [i \in 1..Len(ls) |-> LineStrip(ls[i])]

\* " ".join(parts)
RECURSIVE Join(_)
Join(parts) ==
  IF parts = <<>> THEN <<>>
  ELSE IF Len(parts) = 1 THEN parts[1]
  ELSE parts[1] \o <<" ">> \o Join(Tail(parts))

\* Base-10 form of a natural number, as in an f-string.
DigitChar == <<"0", "1", "2", "3", "4", "5", "6", "7", "8", "9">>

RECURSIVE Decimal(_)
Decimal(n) ==
  IF n < 10 THEN <<DigitChar[n + 1]>>
  ELSE Decimal(n \div 10) \o <<DigitChar[(n % 10) + 1]>>

\* f"Total Mistakes: {len(matches)}"
CountLine(n) == <<"Total Mistakes: ">> \o Decimal(n)

\* str(match): the match's own textual form, opaque to the driver.
MatchLine(m) == <<m>>

\* ------------------------------------------------------------------ state
VARIABLES
  isatty,     \* sys.stdin.isatty()
  argv,       \* sys.argv[1:]
  stdinData,  \* what is on standard input
  fs,         \* the files: path -> [known, exists, content]
  engine,     \* "unknown" | "ok" | "fail": does LanguageTool('en-US') start
  oracle,     \* answers of the engine so far: records [text, ok, ms]
  pc,         \* position of the process
  stdinRead,  \* standard input has been read to its end
  opened,     \* paths opened by fileinput, in order
  idx,        \* next argument fileinput will open
  lines,      \* stripped lines produced so far by the generator
  data,       \* the assembled input text
  inits,      \* number of LanguageTool constructions
  calls,      \* arguments of tool.check, in order
  matches,    \* what tool.check returned
  k,          \* index of the next match to print
  out,        \* lines written to standard output
  failure,    \* "none" | "io" | "init" | "check": the uncaught exception
  run,        \* ordinal of the process run
  prev        \* outcome of the previous run

env == <<isatty, argv, stdinData, fs, engine, oracle>>
proc == <<pc, stdinRead, opened, idx, lines, data, inits, calls, matches, k, out, failure>>
vars == <<env, proc, run, prev>>

Unobserved == [known |-> FALSE, exists |-> FALSE, content |-> <<>>]
NoFile == [known |-> TRUE, exists |-> FALSE, content |-> <<>>]
File(c) == [known |-> TRUE, exists |-> TRUE, content |-> c]

\* What opening path p can give: what was seen before, else any file or none.
FileStates(p) ==
  IF fs[p].known THEN {fs[p]} ELSE {NoFile} \cup {File(c) : c \in FileContents}

\* Whether constructing the tool succeeds: as before, else either way.
EngineStates == IF engine = "unknown" THEN {"ok", "fail"} ELSE {engine}

Failed(t) == [text |-> t, ok |-> FALSE, ms |-> <<>>]
Answer(t, ms) == [text |-> t, ok |-> TRUE, ms |-> ms]

\* What tool.check(t) can do: what it did before for t, else fail or return
\* any sequence of matches.
CheckResults(t) ==
  IF \E r \in oracle : r.text = t
  THEN {r \in oracle : r.text = t}
  ELSE {Failed(t)} \cup {Answer(t, ms) : ms \in MatchLists}

NoPrev == [pc |-> "none", out |-> <<>>, failure |-> "none"]

ProcInit ==
  /\ pc = "main"
  /\ stdinRead = FALSE
  /\ opened = <<>>
  /\ idx = 1
  /\ lines = <<>>
  /\ data = <<>>
  /\ inits = 0
  /\ calls = <<>>
  /\ matches = <<>>
  /\ k = 1
  /\ out = <<>>
  /\ failure = "none"

Init ==
  /\ isatty \in BOOLEAN
  /\ argv \in ArgLists
  /\ stdinData \in (IF isatty THEN {<<>>} ELSE Strings)
  /\ fs = [p \in Paths |-> Unobserved]
  /\ engine = "unknown"
  /\ oracle = {}
  /\ ProcInit
  /\ run = 1
  /\ prev = NoPrev

\* ---------------------------------------------------------------- actions
\* if __name__ == "__main__": choose the source, or print the usage message.
Main_ArgsFirst ==
  /\ pc = "main"
  /\ IF Len(argv) > 0
     THEN pc' = "from_files" /\ out' = out
     ELSE IF ~isatty
     THEN pc' = "from_input" /\ out' = out
     ELSE pc' = "done" /\ out' = Append(out, UsageMessage)
  /\ UNCHANGED <<env, stdinRead, opened, idx, lines, data, inits, calls, matches, k, failure, run, prev>>

Main_NoUsage ==
  /\ pc = "main"
  /\ IF ~isatty
     THEN pc' = "from_input"
     ELSE IF Len(argv) > 0
     THEN pc' = "from_files"
     ELSE pc' = "from_input"
  /\ UNCHANGED <<env, stdinRead, opened, idx, lines, data, inits, calls, matches, k, out, failure, run, prev>>

Main ==
  /\ pc = "main"
  /\ IF ~isatty
     THEN pc' = "from_input" /\ out' = out
     ELSE IF Len(argv) > 0
     THEN pc' = "from_files" /\ out' = out
     ELSE pc' = "done" /\ out' = Append(out, UsageMessage)
  /\ UNCHANGED <<env, stdinRead, opened, idx, lines, data, inits, calls, matches, k, failure, run, prev>>

\* from_input: data = sys.stdin.read().strip(), then lint(data).
FromInput_UsageWhenEmpty ==
  /\ pc = "from_input"
  /\ stdinRead' = TRUE
  /\ data' = InputStrip(stdinData)
  /\ IF data' = <<>>
     THEN pc' = "done" /\ out' = Append(out, UsageMessage)
     ELSE pc' = "lint" /\ out' = out
  /\ UNCHANGED <<env, opened, idx, lines, inits, calls, matches, k, failure, run, prev>>

FromInput ==
  /\ pc = "from_input"
  /\ stdinRead' = TRUE
  /\ data' = InputStrip(stdinData)
  /\ pc' = "lint"
  /\ UNCHANGED <<env, opened, idx, lines, inits, calls, matches, k, out, failure, run, prev>>

\* from_files, the generator over fileinput.input(files): open the next
\* argument and strip each of its lines; a path that cannot be opened raises.
FromFilesRead_SkipMissing ==
  /\ pc = "from_files"
  /\ idx <= Len(argv)
  /\ \E f \in FileStates(argv[idx]) :
       /\ fs' = [fs EXCEPT ![argv[idx]] = f]
       /\ opened' = Append(opened, argv[idx])
       /\ idx' = idx + 1
       /\ IF f.exists
          THEN lines' = lines \o StripLines(SplitLines(f.content)) /\ failure' = failure
          ELSE lines' = lines /\ failure' = "io"
  /\ UNCHANGED <<isatty, argv, stdinData, engine, oracle, pc, stdinRead, data, inits, calls, matches, k, out, run, prev>>

FromFilesRead ==
  /\ pc = "from_files"
  /\ idx <= Len(argv)
  /\ \E f \in FileStates(argv[idx]) :
       /\ fs' = [fs EXCEPT ![argv[idx]] = f]
       /\ opened' = Append(opened, argv[idx])
       /\ IF f.exists
          THEN /\ lines' = lines \o StripLines(SplitLines(f.content))
               /\ idx' = idx + 1
               /\ UNCHANGED <<pc, failure>>
          ELSE /\ pc' = "error"
               /\ failure' = "io"
               /\ UNCHANGED <<lines, idx>>
  /\ UNCHANGED <<isatty, argv, stdinData, engine, oracle, stdinRead, data, inits, calls, matches, k, out, run, prev>>

\* from_files, after the last file: data = " ".join(...), then lint(data).
FromFilesJoin ==
  /\ pc = "from_files"
  /\ idx > Len(argv)
  /\ data' = Join(lines)
  /\ pc' = "lint"
  /\ UNCHANGED <<env, stdinRead, opened, idx, lines, inits, calls, matches, k, out, failure, run, prev>>

\* lint: tool = language_tool_python.LanguageTool('en-US')
LintInit ==
  /\ pc = "lint"
  /\ inits' = inits + 1
  /\ \E e \in EngineStates :
       /\ engine' = e
       /\ IF e = "ok"
          THEN pc' = "check" /\ failure' = failure
          ELSE pc' = "error" /\ failure' = "init"
  /\ UNCHANGED <<isatty, argv, stdinData, fs, oracle, stdinRead, opened, idx, lines, data, calls, matches, k, out, run, prev>>

\* lint: matches = tool.check(data)
LintCheck_Twice ==
  /\ pc = "check"
  /\ calls' = calls \o <<data, data>>
  /\ \E r \in CheckResults(data) :
       /\ oracle' = oracle \cup {r}
       /\ IF r.ok
          THEN pc' = "print_count" /\ matches' = r.ms /\ failure' = failure
          ELSE pc' = "error" /\ matches' = matches /\ failure' = "check"
  /\ UNCHANGED <<isatty, argv, stdinData, fs, engine, stdinRead, opened, idx, lines, data, inits, k, out, run, prev>>

LintCheck_Swallow ==
  /\ pc = "check"
  /\ calls' = Append(calls, data)
  /\ \E r \in CheckResults(data) :
       /\ oracle' = oracle \cup {r}
       /\ pc' = "print_count"
       /\ IF r.ok
          THEN matches' = r.ms /\ failure' = failure
          ELSE matches' = <<>> /\ failure' = "check"
  /\ UNCHANGED <<isatty, argv, stdinData, fs, engine, stdinRead, opened, idx, lines, data, inits, k, out, run, prev>>

LintCheck ==
  /\ pc = "check"
  /\ calls' = Append(calls, data)
  /\ \E r \in CheckResults(data) :
       /\ oracle' = oracle \cup {r}
       /\ IF r.ok
          THEN pc' = "print_count" /\ matches' = r.ms /\ failure' = failure
          ELSE pc' = "error" /\ matches' = matches /\ failure' = "check"
  /\ UNCHANGED <<isatty, argv, stdinData, fs, engine, stdinRead, opened, idx, lines, data, inits, k, out, run, prev>>

\* lint: print(f"Total Mistakes: {len(matches)}")
LintPrintCount ==
  /\ pc = "print_count"
  /\ out' = Append(out, CountLine(Len(matches)))
  /\ k' = 1
  /\ pc' = "print_matches"
  /\ UNCHANGED <<env, stdinRead, opened, idx, lines, data, inits, calls, matches, failure, run, prev>>

\* lint: for match in matches: print(match)
LintPrintMatch_Reversed ==
  /\ pc = "print_matches"
  /\ k <= Len(matches)
  /\ out' = Append(out, MatchLine(matches[Len(matches) + 1 - k]))
  /\ k' = k + 1
  /\ UNCHANGED <<env, pc, stdinRead, opened, idx, lines, data, inits, calls, matches, failure, run, prev>>

LintPrintMatch_AnyOrder ==
  /\ pc = "print_matches"
  /\ k <= Len(matches)
  /\ \E j \in 1..Len(matches) : out' = Append(out, MatchLine(matches[j]))
  /\ k' = k + 1
  /\ UNCHANGED <<env, pc, stdinRead, opened, idx, lines, data, inits, calls, matches, failure, run, prev>>

LintPrintMatch ==
  /\ pc = "print_matches"
  /\ k <= Len(matches)
  /\ out' = Append(out, MatchLine(matches[k]))
  /\ k' = k + 1
  /\ UNCHANGED <<env, pc, stdinRead, opened, idx, lines, data, inits, calls, matches, failure, run, prev>>

\* lint returns after the last match and the script ends.
Exit ==
  /\ pc = "print_matches"
  /\ k > Len(matches)
  /\ pc' = "done"
  /\ UNCHANGED <<env, stdinRead, opened, idx, lines, data, inits, calls, matches, k, out, failure, run, prev>>

\* The script is invoked a second time in the same environment: a new
\* process, whose state is that of a fresh interpreter.
Restart ==
  /\ pc \in {"done", "error"}
  /\ run = 1
  /\ run' = 2
  /\ prev' = [pc |-> pc, out |-> out, failure |-> failure]
  /\ pc' = "main"
  /\ stdinRead' = FALSE
  /\ opened' = <<>>
  /\ idx' = 1
  /\ lines' = <<>>
  /\ data' = <<>>
  /\ inits' = 0
  /\ calls' = <<>>
  /\ matches' = <<>>
  /\ k' = 1
  /\ out' = <<>>
  /\ failure' = "none"
  /\ UNCHANGED env

Next ==
  \/ Main
  \/ FromInput
  \/ FromFilesRead
  \/ FromFilesJoin
  \/ LintInit
  \/ LintCheck
  \/ LintPrintCount
  \/ LintPrintMatch
  \/ Exit

Spec == Init /\ [][Next]_vars

NextTwice == Next \/ Restart

SpecTwice == Init /\ [][NextTwice]_vars

\* ------------------------------------------------- vocabulary of the claims
Terminated == pc \in {"done", "error"}
PipedMode == ~isatty
FileMode == isatty /\ Len(argv) > 0
UsageMode == isatty /\ argv = <<>>

MinOf(S) == CHOOSE x \in S : \A y \in S : x <= y
MaxOf(S) == CHOOSE x \in S : \A y \in S : y <= x

\* Positions of s holding a character that is not whitespace.
NonSpace(s) == {i \in 1..Len(s) : s[i] \notin Whitespace}

\* s without its leading and trailing whitespace; s without its trailing
\* whitespace only.
Trimmed(s) ==
  LET ns == NonSpace(s)
  IN  IF ns = {} THEN <<>> ELSE SubSeq(s, MinOf(ns), MaxOf(ns))
RightTrimmed(s) ==
  LET ns == NonSpace(s)
  IN  IF ns = {} THEN <<>> ELSE SubSeq(s, 1, MaxOf(ns))

\* The lines of a text: the n-th line ends at the n-th line end, a line end
\* being a newline or the last character.
LineEnds(s) == {i \in 1..Len(s) : s[i] = "\n" \/ i = Len(s)}
LinesOf(s) ==
  LET ends == LineEnds(s)
      nth(n) == CHOOSE e \in ends : Cardinality({d \in ends : d <= e}) = n
  IN  [n \in 1..Cardinality(ends) |->
         SubSeq(s, IF n = 1 THEN 1 ELSE nth(n - 1) + 1, nth(n))]

\* Every line of every file argument, in file-then-line order.
RECURSIVE LinesOfFiles(_)
LinesOfFiles(i) ==
  IF i = 0 THEN <<>> ELSE LinesOfFiles(i - 1) \o LinesOf(fs[argv[i]].content)
AllLines == LinesOfFiles(Len(argv))

\* The texts of ts, in order, with one space between neighbours.
RECURSIVE SpaceJoined(_, _)
SpaceJoined(ts, n) ==
  IF n = 0 THEN <<>>
  ELSE IF n = 1 THEN ts[1]
  ELSE SpaceJoined(ts, n - 1) \o <<" ">> \o ts[n]

\* The number a sequence of decimal digits denotes.
DigitValue(c) == CHOOSE d \in 0..9 : DigitChar[d + 1] = c
RECURSIVE DecimalValue(_)
DecimalValue(ds) ==
  IF Len(ds) = 1 THEN DigitValue(ds[1])
  ELSE 10 * DecimalValue(SubSeq(ds, 1, Len(ds) - 1)) + DigitValue(ds[Len(ds)])

\* What the engine answered to the call made in this run.
Returned == Len(calls) = 1 /\ \E r \in oracle : r.text = calls[1] /\ r.ok
ReturnedMatches == (CHOOSE r \in oracle : r.text = calls[1]).ms

IsCountLine(l, n) ==
  /\ Len(l) >= 2
  /\ l[1] = "Total Mistakes: "
  /\ \A i \in 2..Len(l) : l[i] \in {DigitChar[d] : d \in 1..10}
  /\ (Len(l) > 2 => l[2] # "0")
  /\ DecimalValue(Tail(l)) = n

UsageLine == <<"Please provide input via stdin, or provide files as arguments">>

\* ------------------------------------------------------------------ claims

\* C1, as stated: exactly one checker invocation per process run: every
\* terminated run has made exactly 1 call of tool.check, and no state has
\* more than 1.
C1_ExactlyOneCallInEveryRun ==
  /\ Len(calls) <= 1
  /\ (Terminated => Len(calls) = 1)

\* C1, amended: at most one checker invocation per process run, on the one
\* assembled text: a run that ends normally in piped or file mode has made
\* exactly 1 call; a run that prints the usage message, or that fails before
\* the call (unreadable file, engine not starting), has made none; no state
\* has more than 1.
C1_AtMostOneCall ==
  /\ Len(calls) <= 1
  /\ \A i \in 1..Len(calls) : calls[i] = data
  /\ (pc = "done" /\ ~UsageMode => Len(calls) = 1)
  /\ (pc = "done" /\ UsageMode => Len(calls) = 0)
  /\ (pc = "error" => Len(calls) = (IF failure = "check" THEN 1 ELSE 0))

C1_Witness == pc = "done" /\ FileMode /\ Len(calls) = 1 /\ Len(out) > 1

\* C2: when stdin is not a terminal, whatever the file arguments, the text
\* given to the checker comes from stdin alone and no file argument is ever
\* opened or read.
C2_PipedIgnoresFiles ==
  PipedMode =>
    /\ opened = <<>>
    /\ \A p \in Paths : ~fs[p].known
    /\ lines = <<>>
    /\ pc # "from_files"
    /\ \A i \in 1..Len(calls) : calls[i] = Trimmed(stdinData)

C2_Witness ==
  /\ PipedMode /\ Len(argv) >= 2 /\ argv[1] # argv[2]
  /\ pc = "done" /\ Len(calls) = 1 /\ calls[1] # <<>>

\* C3: with stdin a terminal and no arguments, the whole output is the usage
\* message, the checker is never constructed nor called, and the run ends
\* normally.
C3_UsageOnly ==
  UsageMode =>
    /\ pc \in {"main", "done"}
    /\ failure = "none"
    /\ inits = 0
    /\ calls = <<>>
    /\ out = (IF pc = "done" THEN <<UsageLine>> ELSE <<>>)

C3_Witness == UsageMode /\ pc = "done" /\ Len(out) = 1

\* C4: when the checker returns N matches, the output is the line
\* "Total Mistakes: N" followed by the N matches in the order returned, none
\* dropped, repeated or moved; while printing, the output is a prefix of that.
C4_CountThenMatchesInOrder ==
  Returned =>
    LET ms == ReturnedMatches
        n == Len(ms)
    IN  /\ Len(out) <= n + 1
        /\ (Len(out) >= 1 => IsCountLine(out[1], n))
        /\ \A i \in 2..Len(out) : out[i] = <<ms[i - 1]>>
        /\ (pc = "done" => Len(out) = n + 1)

C4_Witness ==
  /\ pc = "done" /\ Returned
  /\ Len(ReturnedMatches) = 2 /\ ReturnedMatches[1] # ReturnedMatches[2]
  /\ Len(out) = 3

\* C5, as stated: in file mode the text given to the checker is every line
\* of every file, in file-then-line order, joined by single spaces, each
\* line with its trailing whitespace removed and nothing else.
C5_LinesTrailingStripped ==
  FileMode /\ Len(calls) >= 1 =>
    LET ls == AllLines
        ts == [i \in 1..Len(ls) |-> RightTrimmed(ls[i])]
    IN  calls[1] = SpaceJoined(ts, Len(ts))

\* C5, amended: as above, but each line has its leading and its trailing
\* whitespace removed (and nothing else).
C5_LinesStrippedBothEnds ==
  FileMode /\ Len(calls) >= 1 =>
    LET ls == AllLines
        ts == [i \in 1..Len(ls) |-> Trimmed(ls[i])]
    IN  calls[1] = SpaceJoined(ts, Len(ts))

C5_Witness ==
  /\ FileMode /\ Len(calls) = 1
  /\ Len(argv) >= 2 /\ argv[1] # argv[2]
  /\ Len(LinesOf(fs[argv[1]].content)) >= 2
  /\ \E i \in 1..Len(AllLines) :
       /\ AllLines[i][1] \in Whitespace
       /\ Trimmed(AllLines[i]) # <<>>

C7_NoPartialResult ==
  failure \in {"init", "check"} =>
    /\ pc = "error"
    /\ out = <<>>
    /\ inits = 1
    /\ Len(calls) = (IF failure = "check" THEN 1 ELSE 0)
    /\ ~ENABLED Next

C7_Witness == failure = "check" /\ pc = "error" /\ Len(calls) = 1

\* C8: in file mode, if a file argument cannot be read, wherever it stands
\* in the list, the run ends in the error state, the checker has been
\* neither constructed nor called and nothing has been printed.
C8_UnreadableFileIsFatal ==
  (failure = "io" \/ \E i \in 1..Len(opened) : ~fs[opened[i]].exists) =>
    /\ FileMode
    /\ failure = "io"
    /\ pc = "error"
    /\ ~fs[opened[Len(opened)]].exists
    /\ inits = 0
    /\ calls = <<>>
    /\ out = <<>>
    /\ ~ENABLED Next

C8_Witness ==
  /\ failure = "io" /\ Len(opened) = 2
  /\ fs[opened[1]].exists /\ fs[opened[1]].content # <<>>

\* C9: a second run in the same environment (same stdin, arguments and
\* files, an engine that answers as before) starts from the state of a fresh
\* process and ends with the same output and the same outcome as the first.
C9_SecondRunRepeatsFirst ==
  /\ (run = 2 /\ pc = "main" =>
        /\ ~stdinRead /\ opened = <<>> /\ lines = <<>> /\ data = <<>>
        /\ inits = 0 /\ calls = <<>> /\ out = <<>> /\ failure = "none")
  /\ (run = 2 /\ Terminated =>
        /\ pc = prev.pc
        /\ out = prev.out
        /\ failure = prev.failure)

C9_Witness == run = 2 /\ pc = "done" /\ Len(out) = 3 /\ out[2] # out[3]

====
